---- MODULE Spec2Model ----
(***************************************************************************)
(* Account REST API service (service/routes.py).                           *)
(*                                                                         *)
(* The state is the accounts table behind the ORM plus the last request    *)
(* and its response.  Every route handler of routes.py is one operator     *)
(* that maps (table, request) to (response, table'), and one action that   *)
(* applies it.  The Account entity (service/models.py) and the error       *)
(* handlers that turn a validation failure into 400 are not part of the    *)
(* sources at hand; they are modelled from the specification's sections    *)
(* 3, 4.1 and 7.                                                           *)
(*                                                                         *)
(* Values: every JSON scalar is a string, JSON null / Python None is NULL, *)
(* a date object is written "date(Y,M,D)" and its ISO-8601 wire form       *)
(* "YYYY-MM-DD"; ids are naturals, NoId is the id of an unsaved entity.    *)
(* A request payload (request.get_json()) is a function from the set of    *)
(* keys present in the JSON object to their values.                        *)
(***************************************************************************)
EXTENDS Naturals, Integers, Sequences, FiniteSets, TLC

VARIABLES
    table,      \* the persisted Account rows (a set of records, one per row)
    seq,        \* the id the persistence layer assigns to the next insert
    req,        \* the last request handled
    resp,       \* the response to req
    before,     \* the table as it was when req arrived
    posted,     \* id -> body of the 201 that created it, until a PUT/DELETE on it
    n_created,  \* number of 201 responses so far
    n_deleted   \* number of DELETE 200 responses so far

vars == <<table, seq, req, resp, before, posted, n_created, n_deleted>>

\* Bound on the number of successful creates in a run.
MaxCreates == 2

NULL == "null"
NoId == 0
Malformed == "<not a string>"

JSON == "application/json"
ContentTypes == {NULL, "", JSON, "test/html", "application/json; charset=utf-8"}

IsoDates == {"2025-01-01", "2025-02-01", "2026-11-04"}
\* date.today() while the service runs.
Today == "date(2026,11,4)"
\* Ids a request path can carry: 0 is never assigned.
Ids == 0 .. MaxCreates

Fields == {"name", "email", "address", "phone_number", "date_joined"}

----------------------------------------------------------------------------
(* Account entity: service/models.py, modelled from spec sections 3, 4.1.  *)

\* date.isoformat(): the wire rendering of a stored date.
isoformat(d) ==
    CASE d = "date(2025,1,1)" -> "2025-01-01"
      [] d = "date(2025,2,1)" -> "2025-02-01"
      [] d = "date(2026,11,4)" -> "2026-11-04"

\* date.fromisoformat(): the date a wire string denotes.
fromisoformat(s) ==
    CASE s = "2025-01-01" -> "date(2025,1,1)"
      [] s = "2025-02-01" -> "date(2025,2,1)"
      [] s = "2026-11-04" -> "date(2026,11,4)"

\* dict.get(key, default)
get(data, key, default) == IF key \in DOMAIN data THEN data[key] ELSE default

\* deserialize raises a validation error: name or email missing or null, or a
\* field that is present carries a value of the wrong type.
deserialize_fails(data) ==
    \/ "name" \notin DOMAIN data
    \/ "email" \notin DOMAIN data
    \/ data["name"] = NULL
    \/ data["email"] = NULL
    \/ \E k \in Fields \cap DOMAIN data : data[k] = Malformed

\* deserialize: an unsaved Account populated from the payload; a payload "id"
\* is not read, an absent date_joined defaults to the creation date.
deserialize(data, today) ==
    [id           |-> NoId,
     name         |-> data["name"],
     email        |-> data["email"],
     address      |-> get(data, "address", NULL),
     phone_number |-> get(data, "phone_number", NULL),
     date_joined  |-> IF get(data, "date_joined", NULL) = NULL
                      THEN today
                      ELSE fromisoformat(data["date_joined"])]

\* serialize: the wire mapping of an account, date_joined as an ISO string.
serialize(account) ==
    [id           |-> account.id,
     name         |-> account.name,
     email        |-> account.email,
     address      |-> account.address,
     phone_number |-> account.phone_number,
     date_joined  |-> isoformat(account.date_joined)]

\* The date column: a wire string assigned to the attribute is stored as a date.
date_column(v) == IF v \in IsoDates THEN fromisoformat(v) ELSE v

\* Account.find(id) / Account.query.get(id): the rows with that id (none or one).
find(tbl, id) == {r \in tbl : r.id = id}

\* Account.all(): every row exactly once, as a sequence (here: by ascending id).
RECURSIVE all(_)
all(tbl) ==
    IF tbl = {} THEN << >>
    ELSE LET first == CHOOSE r \in tbl : \A o \in tbl : r.id <= o.id
         IN  << first >> \o all(tbl \ {first})

\* account.create(): insert with the next id of the sequence.
create(tbl, next, account) ==
    LET saved == [account EXCEPT !.id = next]
    IN  [account |-> saved, table |-> tbl \cup {saved}, seq |-> next + 1]

\* account.update(): write the entity's attributes to its row.
update(tbl, id, account) ==
    LET saved == [account EXCEPT !.date_joined = date_column(@)]
    IN  [account |-> saved, table |-> (tbl \ find(tbl, id)) \cup {saved}]

\* account.delete(): remove the entity's row.
delete(tbl, account) == tbl \ {account}

----------------------------------------------------------------------------
(* Route handlers: service/routes.py.  Each returns the response and the   *)
(* table (and id sequence) the request leaves behind.                      *)

NotFound == [error |-> "Account not found"]
Deleted == [message |-> "Account deleted successfully"]

Reply(status, body, tbl, next) ==
    [status |-> status, body |-> body, table |-> tbl, seq |-> next]

\* A guard that compares only the media type and ignores its parameters.
check_content_type_params(content_type, media_type) ==
    \/ content_type \notin {NULL, ""} /\ content_type = media_type
    \/ content_type = "application/json; charset=utf-8" /\ media_type = JSON

\* check_content_type: TRUE when the request passes, FALSE when it aborts 415.
check_content_type(content_type, media_type) ==
    content_type \notin {NULL, ""} /\ content_type = media_type

\* A create that saves the blank Account() before it reads the payload.
create_accounts_create_first(tbl, next, content_type, data, today) ==
    IF ~check_content_type(content_type, JSON)
    THEN Reply(415, [error |-> "Unsupported media type"], tbl, next)
    ELSE LET blank == [id |-> NoId, name |-> NULL, email |-> NULL,
                       address |-> NULL, phone_number |-> NULL,
                       date_joined |-> today]
             early == create(tbl, next, blank)
         IN  IF deserialize_fails(data)
             THEN Reply(400, [error |-> "Bad Request"], early.table, early.seq)
             ELSE LET account == [deserialize(data, today) EXCEPT !.id = next]
                      done == update(early.table, next, account)
                  IN  Reply(201, serialize(done.account), done.table, early.seq)

\* A create that never calls account.create().
create_accounts_no_create(tbl, next, content_type, data, today) ==
    IF ~check_content_type(content_type, JSON)
    THEN Reply(415, [error |-> "Unsupported media type"], tbl, next)
    ELSE IF deserialize_fails(data)
    THEN Reply(400, [error |-> "Bad Request"], tbl, next)
    ELSE Reply(201, serialize(deserialize(data, today)), tbl, next)

create_accounts(tbl, next, content_type, data, today) ==
    IF ~check_content_type(content_type, JSON)
    THEN Reply(415, [error |-> "Unsupported media type"], tbl, next)
    ELSE IF deserialize_fails(data)
    THEN Reply(400, [error |-> "Bad Request"], tbl, next)
    ELSE LET account == deserialize(data, today)
             done == create(tbl, next, account)
         IN  Reply(201, serialize(done.account), done.table, done.seq)

\* A listing that skips the first record.
list_accounts_skip(tbl) ==
    LET accounts == IF tbl = {} THEN << >> ELSE Tail(all(tbl))
    IN  [status |-> 200,
         body   |-> [i \in 1 .. Len(accounts) |-> serialize(accounts[i])]]

list_accounts(tbl) ==
    LET accounts == all(tbl)
    IN  [status |-> 200,
         body   |-> [i \in 1 .. Len(accounts) |-> serialize(accounts[i])]]

\* A read that takes the first record of the table instead of the one asked for.
get_account_first(tbl, id) ==
    LET accounts == all(tbl)
    IN  IF accounts /= << >>
        THEN [status |-> 200, body |-> serialize(accounts[1])]
        ELSE [status |-> 404, body |-> NotFound]

get_account(tbl, id) ==
    LET account == find(tbl, id)
    IN  IF account /= {}
        THEN [status |-> 200, body |-> serialize(CHOOSE r \in account : TRUE)]
        ELSE [status |-> 404, body |-> NotFound]

\* An update that reads name, email, address and phone_number with no default.
update_account_replace(tbl, id, data) ==
    LET found == find(tbl, id)
    IN  IF found = {}
        THEN [status |-> 404, body |-> NotFound, table |-> tbl]
        ELSE LET account == CHOOSE r \in found : TRUE
                 merged ==
                   [account EXCEPT
                      !.name = get(data, "name", NULL),
                      !.email = get(data, "email", NULL),
                      !.address = get(data, "address", NULL),
                      !.phone_number = get(data, "phone_number", NULL),
                      !.date_joined =
                          get(data, "date_joined", account.date_joined)]
                 done == update(tbl, id, merged)
             IN  [status |-> 200, body |-> serialize(done.account),
                  table |-> done.table]

\* An update that creates the account when the id is not stored.
update_account_upsert(tbl, id, data) ==
    LET found == find(tbl, id)
        account == IF found = {}
                   THEN [id |-> id, name |-> NULL, email |-> NULL,
                         address |-> NULL, phone_number |-> NULL,
                         date_joined |-> Today]
                   ELSE CHOOSE r \in found : TRUE
        merged ==
          [account EXCEPT
             !.name = get(data, "name", account.name),
             !.email = get(data, "email", account.email),
             !.address = get(data, "address", account.address),
             !.phone_number = get(data, "phone_number", account.phone_number),
             !.date_joined = get(data, "date_joined", account.date_joined)]
        done == update(tbl, id, merged)
    IN  [status |-> 200, body |-> serialize(done.account), table |-> done.table]

\* An update that also takes the id from the payload.
update_account_with_id(tbl, id, data) ==
    LET found == find(tbl, id)
    IN  IF found = {}
        THEN [status |-> 404, body |-> NotFound, table |-> tbl]
        ELSE LET account == CHOOSE r \in found : TRUE
                 merged ==
                   [account EXCEPT
                      !.id = get(data, "id", account.id),
                      !.name = get(data, "name", account.name),
                      !.email = get(data, "email", account.email),
                      !.address = get(data, "address", account.address),
                      !.phone_number =
                          get(data, "phone_number", account.phone_number),
                      !.date_joined =
                          get(data, "date_joined", account.date_joined)]
                 done == update(tbl, id, merged)
             IN  [status |-> 200, body |-> serialize(done.account),
                  table |-> done.table]

update_account(tbl, id, data) ==
    LET found == find(tbl, id)
    IN  IF found = {}
        THEN [status |-> 404, body |-> NotFound, table |-> tbl]
        ELSE LET account == CHOOSE r \in found : TRUE
                 merged ==
                   [account EXCEPT
                      !.name = get(data, "name", account.name),
                      !.email = get(data, "email", account.email),
                      !.address = get(data, "address", account.address),
                      !.phone_number =
                          get(data, "phone_number", account.phone_number),
                      !.date_joined =
                          get(data, "date_joined", account.date_joined)]
                 done == update(tbl, id, merged)
             IN  [status |-> 200, body |-> serialize(done.account),
                  table |-> done.table]

\* A delete that answers 200 without calling account.delete().
delete_account_keep(tbl, account_id) ==
    LET account == find(tbl, account_id)
    IN  IF account = {}
        THEN [status |-> 404, body |-> NotFound, table |-> tbl]
        ELSE [status |-> 200, body |-> Deleted, table |-> tbl]

delete_account(tbl, account_id) ==
    LET account == find(tbl, account_id)
    IN  IF account = {}
        THEN [status |-> 404, body |-> NotFound, table |-> tbl]
        ELSE [status |-> 200, body |-> Deleted,
              table |-> delete(tbl, CHOOSE r \in account : TRUE)]

----------------------------------------------------------------------------
(* Requests.                                                               *)

\* A payload: the keys in `keys`, each with the value given for it.
Payload(keys, id, name, email, address, phone, date) ==
    [k \in keys |->
        CASE k = "id" -> id
          [] k = "name" -> name
          [] k = "email" -> email
          [] k = "address" -> address
          [] k = "phone_number" -> phone
          [] k = "date_joined" -> date]

\* The account of the tests' _create_account helper, restricted to `keys`.
JohnDoe(keys, name, email, date) ==
    Payload(keys, 0, name, email, "123 Main St", "555-1234", date)

\* The update of test_update_account, restricted to `keys`.
JohnUpdated(keys, id, name) ==
    Payload(keys, id, name, "john.updated@example.com", "456 Updated St",
            "555-5678", "2025-02-01")

\* Bodies sent to POST /accounts.
PostPayloads ==
    {JohnDoe(ks, "John Doe", "john.doe@example.com", "2025-01-01") :
        ks \in {{}, {"name"}, {"email"}, {"name", "email"},
                {"id", "name", "email"}, Fields}}
    \cup {JohnDoe({"name", "email"}, NULL, "john.doe@example.com", NULL),
          JohnDoe({"name", "email"}, "John Doe", NULL, NULL),
          JohnDoe(Fields, "John Doe", "john.doe@example.com", Malformed)}

\* POST requests: every body as JSON, and bodies under each other content type.
PostRequests ==
    {<<JSON, data>> : data \in PostPayloads}
    \cup {<<ct, JohnDoe(Fields, "John Doe", "john.doe@example.com", "2025-01-01")>> :
            ct \in ContentTypes \ {JSON}}
    \cup {<<"test/html", JohnDoe({"name"}, "John Doe", NULL, NULL)>>}

\* Bodies sent to PUT /accounts/{id}: JSON objects with well-typed values.
PutPayloads ==
    {JohnUpdated(ks, 0, "John Updated") : ks \in {{}, {"name"}, Fields}}
    \cup {JohnUpdated({"name"}, 0, NULL)}
    \cup {JohnUpdated({"id", "name"}, i, "John Updated") : i \in 1 .. MaxCreates}

NoData == Payload({}, 0, NULL, NULL, NULL, NULL, NULL)

Request(op, id, content_type, data) ==
    [op |-> op, id |-> id, content_type |-> content_type, data |-> data]

Init ==
    /\ table = {}
    /\ seq = 1
    /\ req = Request("none", NoId, NULL, NoData)
    /\ resp = [status |-> 0, body |-> NotFound]
    /\ before = {}
    /\ posted = [i \in {} |-> NotFound]
    /\ n_created = 0
    /\ n_deleted = 0

\* The creating POST's body is remembered for id; a PUT or DELETE on id forgets it.
Forget(id) == [i \in DOMAIN posted \ {id} |-> posted[i]]
Remember(id, body) ==
    [i \in DOMAIN posted \cup {id} |-> IF i = id THEN body ELSE posted[i]]

\* POST /accounts
POST_accounts ==
    \E rq \in PostRequests :
        LET content_type == rq[1]
            data == rq[2]
            r == create_accounts(table, seq, content_type, data, Today)
        IN  /\ r.status = 201 => n_created < MaxCreates
            /\ req' = Request("create", NoId, content_type, data)
            /\ resp' = [status |-> r.status, body |-> r.body]
            /\ before' = table
            /\ table' = r.table
            /\ seq' = r.seq
            /\ posted' = IF r.status = 201
                         THEN Remember(r.body.id, r.body) ELSE posted
            /\ n_created' = IF r.status = 201 THEN n_created + 1 ELSE n_created
            /\ UNCHANGED n_deleted

\* GET /accounts
GET_accounts ==
    /\ req' = Request("list", NoId, NULL, NoData)
    /\ resp' = list_accounts(table)
    /\ before' = table
    /\ UNCHANGED <<table, seq, posted, n_created, n_deleted>>

\* GET /accounts/{id}
GET_account ==
    \E id \in Ids :
        /\ req' = Request("read", id, NULL, NoData)
        /\ resp' = get_account(table, id)
        /\ before' = table
        /\ UNCHANGED <<table, seq, posted, n_created, n_deleted>>

\* PUT /accounts/{id}
PUT_account ==
    \E id \in Ids, data \in PutPayloads :
        LET r == update_account(table, id, data)
        IN  /\ req' = Request("update", id, JSON, data)
            /\ resp' = [status |-> r.status, body |-> r.body]
            /\ before' = table
            /\ table' = r.table
            /\ posted' = IF r.status = 200 THEN Forget(id) ELSE posted
            /\ UNCHANGED <<seq, n_created, n_deleted>>

\* DELETE /accounts/{id}
DELETE_account ==
    \E id \in Ids :
        LET r == delete_account(table, id)
        IN  /\ req' = Request("delete", id, NULL, NoData)
            /\ resp' = [status |-> r.status, body |-> r.body]
            /\ before' = table
            /\ table' = r.table
            /\ posted' = IF r.status = 200 THEN Forget(id) ELSE posted
            /\ n_deleted' = IF r.status = 200 THEN n_deleted + 1 ELSE n_deleted
            /\ UNCHANGED <<seq, n_created>>

Next ==
    \/ POST_accounts
    \/ GET_accounts
    \/ GET_account
    \/ PUT_account
    \/ DELETE_account

Spec == Init /\ [][Next]_vars

----------------------------------------------------------------------------
(* Properties.                                                             *)

ids(tbl) == {r.id : r \in tbl}
row(tbl, id) == CHOOSE r \in tbl : r.id = id
count(tbl) == Len(list_accounts(tbl).body)

IsCreate == req.op = "create"
IsUpdate == req.op = "update"
IsDelete == req.op = "delete"
HasNameAndEmail(data) ==
    /\ "name" \in DOMAIN data /\ "email" \in DOMAIN data
    /\ data["name"] /= NULL /\ data["email"] /= NULL
WellFormed(data) == \A k \in Fields \cap DOMAIN data : data[k] /= Malformed

\* C1: a POST /accounts whose Content-Type is absent or anything other than
\* exactly application/json is answered 415 and leaves the stored accounts,
\* and so the length of GET /accounts, as they were, whatever the body.
C1_UnsupportedMediaType ==
    (IsCreate /\ req.content_type /= JSON) =>
        /\ resp.status = 415
        /\ table = before
        /\ count(table) = count(before)

C1_Witness ==
    /\ IsCreate /\ req.content_type \in {NULL, "application/json; charset=utf-8"}
    /\ HasNameAndEmail(req.data) /\ WellFormed(req.data)
    /\ before /= {}

\* C2: a JSON POST /accounts whose payload lacks name or lacks email is
\* answered 400 and the stored accounts after it equal those before it.
C2_BadRequest ==
    (/\ IsCreate /\ req.content_type = JSON
     /\ ("name" \notin DOMAIN req.data \/ "email" \notin DOMAIN req.data)) =>
        /\ resp.status = 400
        /\ table = before

C2_Witness ==
    /\ IsCreate /\ req.content_type = JSON
    /\ DOMAIN req.data = {"name"}
    /\ resp.status = 400
    /\ before /= {}

\* What a successful create is: 201, exactly one account added under a fresh
\* id, the body is that account and carries the payload's name and email.
Created ==
    /\ resp.status = 201
    /\ before \subseteq table
    /\ Cardinality(table) = Cardinality(before) + 1
    /\ resp.body.id \notin ids(before)
    /\ \E r \in table \ before : serialize(r) = resp.body
    /\ resp.body.name = req.data["name"]
    /\ resp.body.email = req.data["email"]

\* C3 as stated: every JSON POST /accounts whose payload has non-null name and
\* email is answered 201, adds exactly one account and echoes name and email.
C3_AsStated ==
    (IsCreate /\ req.content_type = JSON /\ HasNameAndEmail(req.data)) => Created

\* C3: every JSON POST /accounts whose payload has non-null name and email and
\* no field of the wrong type is answered 201, adds exactly one account and
\* echoes the payload's name and email.
C3_Created ==
    (/\ IsCreate /\ req.content_type = JSON
     /\ HasNameAndEmail(req.data) /\ WellFormed(req.data)) => Created

C3_Witness ==
    /\ IsCreate /\ req.content_type = JSON
    /\ DOMAIN req.data = {"name", "email"}
    /\ resp.status = 201
    /\ before /= {}

\* C4: PUT /accounts/{I} on an existing id is a partial merge: a field whose
\* key is absent from the payload keeps its stored value, a field whose key
\* is present takes the payload's value, the other accounts are untouched and
\* the response is 200 with the merged account.
C4_PartialMerge ==
    (IsUpdate /\ req.id \in ids(before)) =>
        /\ resp.status = 200
        /\ req.id \in ids(table)
        /\ LET old == row(before, req.id)
               new == row(table, req.id)
           IN  /\ \A k \in Fields \ DOMAIN req.data : new[k] = old[k]
               /\ \A k \in Fields \cap DOMAIN req.data :
                      serialize(new)[k] = req.data[k]
               /\ resp.body = serialize(new)
               /\ table \ {new} = before \ {old}

C4_Witness ==
    /\ IsUpdate /\ resp.status = 200
    /\ DOMAIN req.data = {"name"}
    /\ row(before, req.id).name /= req.data["name"]
    /\ row(before, req.id).address /= NULL

\* C5: while no PUT or DELETE has hit id I since the POST that created it,
\* GET /accounts/{I} answers 200 with exactly the body that POST returned,
\* whatever happened to other ids in between.
C5_RoundTrip ==
    /\ \A i \in DOMAIN posted :
           get_account(table, i) = [status |-> 200, body |-> posted[i]]
    /\ (req.op = "read" /\ req.id \in DOMAIN posted) =>
           resp = [status |-> 200, body |-> posted[req.id]]

C5_Witness ==
    /\ req.op = "read" /\ req.id \in DOMAIN posted
    /\ resp.status = 200
    /\ \E r \in table : r.id > req.id /\ r.id \notin DOMAIN posted

\* C6: once DELETE /accounts/{I} has answered 200 with the deletion message,
\* no account with id I is stored, GET /accounts/{I} answers 404, and every
\* other stored account is as it was.
C6_Deleted ==
    (IsDelete /\ resp.status = 200) =>
        /\ resp.body = Deleted
        /\ req.id \in ids(before)
        /\ req.id \notin ids(table)
        /\ get_account(table, req.id) = [status |-> 404, body |-> NotFound]
        /\ table = {r \in before : r.id /= req.id}

C6_Witness ==
    /\ IsDelete /\ resp.status = 200
    /\ table /= {}

\* C7: GET, PUT and DELETE on an id that no stored account has answer 404
\* with {"error": "Account not found"} and leave the store as it was.
C7_NotFound ==
    (req.op \in {"read", "update", "delete"} /\ req.id \notin ids(before)) =>
        /\ resp = [status |-> 404, body |-> NotFound]
        /\ table = before

C7_Witness ==
    /\ IsUpdate /\ req.id \notin ids(before)
    /\ DOMAIN req.data = Fields
    /\ before /= {}

\* C8: GET /accounts answers 200 with every stored account exactly once and
\* nothing else; the store holds as many accounts as creates succeeded minus
\* deletes succeeded (N after N creates and no delete), and a request other
\* than a successful create or delete never changes that number.
C8_ListsAll ==
    /\ Cardinality(table) = n_created - n_deleted
    /\ count(table) = Cardinality(table)
    /\ (~(IsCreate /\ resp.status = 201) /\ ~(IsDelete /\ resp.status = 200)) =>
           count(table) = count(before)
    /\ req.op = "list" =>
        /\ resp.status = 200
        /\ Len(resp.body) = n_created - n_deleted
        /\ {resp.body[i] : i \in 1 .. Len(resp.body)} =
               {serialize(r) : r \in table}
        /\ \A i, j \in 1 .. Len(resp.body) :
               resp.body[i].id = resp.body[j].id => i = j

C8_Witness ==
    /\ req.op = "list"
    /\ n_created > 1 /\ n_deleted = 0
    /\ Len(resp.body) = n_created

\* C9: ids are fixed at creation: the stored ids are unique, only a create
\* adds one (a fresh one) and only a delete removes one (its own); a PUT
\* /accounts/{I} answers with id I even when its payload carries another id,
\* and puts no account under the payload's id.
C9_IdImmutable ==
    /\ Cardinality(ids(table)) = Cardinality(table)
    /\ (req.op \notin {"create", "delete"}) => ids(table) = ids(before)
    /\ IsCreate => ids(before) \subseteq ids(table)
    /\ IsDelete => ids(table) = ids(before) \ {req.id}
    /\ (IsUpdate /\ resp.status = 200) =>
        /\ resp.body.id = req.id
        /\ "id" \in DOMAIN req.data =>
               (req.data["id"] \in ids(table) <=> req.data["id"] \in ids(before))

C9_Witness ==
    /\ IsUpdate /\ resp.status = 200
    /\ "id" \in DOMAIN req.data
    /\ req.data["id"] /= req.id
    /\ req.data["id"] \notin ids(before)

\* C10: in every reachable state every stored account has a non-null name
\* and a non-null email, also after a PUT whose payload sets one to null.
C10_NameEmailNonNull ==
    \A r \in table : r.name /= NULL /\ r.email /= NULL

====
